---- MODULE Spec2Model ----
(***************************************************************************)
(* Model of md_to_html (src/app.py): the line-oriented Markdown to HTML    *)
(* converter, its block assemblers and its inline renderer.                *)
(*                                                                         *)
(* Text is a sequence of one-character strings.  Rendered HTML is a        *)
(* sequence of tokens: a token is either one character of text (always a   *)
(* one-character string) or a chunk of markup written by the converter     *)
(* (a string such as "<li>", never the bare character "<" or ">").         *)
(***************************************************************************)
EXTENDS Integers, Sequences, FiniteSets, TLC

VARIABLES lines, i, html_lines, title, meta_desc, inside_code, code_lang,
          code_lines, stack, pc, result

vars == <<lines, i, html_lines, title, meta_desc, inside_code, code_lang,
          code_lines, stack, pc, result>>

\* ---------------------------------------------------------------- bounds

\* Longest document, in lines.
MaxLines == 3

\* ------------------------------------------------------------- str helpers

\* Python's None, for the Optional[str] locals title and meta_desc.
None == <<"None">>

\* Truthiness of an Optional[str]: None and "" are both false.
Falsy(x) == x = None \/ x = <<>>

\* Characters matched by \s and removed by str.strip().
WS == {" ", "\t"}

\* The backtick character (a TLA+ string cannot hold one).
BT == "bt"

Digits == {"0", "1", "2", "3", "4", "5", "6", "7", "8", "9"}

Min(a, b) == IF a < b THEN a ELSE b

\* s[p:] with p a 1-based index.
From(s, p) == SubSeq(s, p, Len(s))

\* Index of the first character at or after p that is not whitespace
\* (Len(s) + 1 when there is none): the end of a greedy \s* begun at p.
SkipWS(s, p) ==
    IF p > Len(s) THEN p
    ELSE CHOOSE q \in p..(Len(s) + 1) :
            /\ (q = Len(s) + 1 \/ s[q] \notin WS)
            /\ \A r \in p..(q - 1) : s[r] \in WS

\* Index of the last character at or before p that is not whitespace (0 when none).
LastNonWS(s, p) ==
    IF p < 1 THEN p
    ELSE CHOOSE q \in 0..p :
            /\ (q = 0 \/ s[q] \notin WS)
            /\ \A r \in (q + 1)..p : s[r] \in WS

\* str.rstrip()
RStrip(s) == SubSeq(s, 1, LastNonWS(s, Len(s)))

\* str.strip()
Strip(s) == SubSeq(s, SkipWS(s, 1), LastNonWS(s, Len(s)))

\* Index of the first position at or after p where s holds c (Len(s) + 1 when
\* none; p itself when p is past the end).
Find(s, c, p) ==
    IF p > Len(s) THEN p
    ELSE CHOOSE q \in p..(Len(s) + 1) :
            /\ (q = Len(s) + 1 \/ s[q] = c)
            /\ \A r \in p..(q - 1) : s[r] # c

\* Index of the first position at or after p where s holds c twice in a row
\* (Len(s) + 1 when none).
Find2(s, c, p) ==
    IF p + 1 > Len(s) THEN Len(s) + 1
    ELSE CHOOSE q \in p..(Len(s) + 1) :
            /\ (q = Len(s) + 1 \/ (q < Len(s) /\ s[q] = c /\ s[q + 1] = c))
            /\ \A r \in p..(q - 1) : ~(r < Len(s) /\ s[r] = c /\ s[r + 1] = c)

\* Number of consecutive c from p on.
RunLen(s, c, p) ==
    IF p > Len(s) THEN 0
    ELSE (CHOOSE q \in p..(Len(s) + 1) :
            /\ (q = Len(s) + 1 \/ s[q] # c)
            /\ \A r \in p..(q - 1) : s[r] = c) - p

\* Number of consecutive digits from p on.
DigitRun(s, p) ==
    IF p > Len(s) THEN 0
    ELSE (CHOOSE q \in p..(Len(s) + 1) :
            /\ (q = Len(s) + 1 \/ s[q] \notin Digits)
            /\ \A r \in p..(q - 1) : s[r] \in Digits) - p

\* The sequences ss[lo..hi] one after the other.
RECURSIVE Concat(_, _, _)
Concat(ss, lo, hi) ==
    IF lo > hi THEN <<>>
    ELSE IF lo = hi THEN ss[lo]
    ELSE LET mid == (lo + hi) \div 2 IN
         Concat(ss, lo, mid) \o Concat(ss, mid + 1, hi)

\* sep.join(parts)
RECURSIVE Join(_, _)
Join(parts, sep) ==
    IF parts = <<>> THEN <<>>
    ELSE IF Len(parts) = 1 THEN parts[1]
    ELSE parts[1] \o sep \o Join(Tail(parts), sep)

\* str.endswith for a fragment and a piece of markup written as characters:
\* the fragment ends with the markup token itself, or with its characters.
EndsWith(frag, tok, chars) ==
    \/ (frag # <<>> /\ frag[Len(frag)] = tok)
    \/ (Len(frag) >= Len(chars)
        /\ SubSeq(frag, Len(frag) - Len(chars) + 1, Len(frag)) = chars)

\* ------------------------------------------------------------ block regexes

\* FENCE_RE = ^\s*```(.*)$
FenceMatch(s) ==
    LET p == SkipWS(s, 1) IN
    p + 2 <= Len(s) /\ s[p] = BT /\ s[p + 1] = BT /\ s[p + 2] = BT

\* FENCE_RE group 1
FenceGroup(s) == From(s, SkipWS(s, 1) + 3)

\* HEADING_RE = ^(#{1,6})\s*(.*)
HeadingMatch(s) == Len(s) >= 1 /\ s[1] = "#"

\* HEADING_RE group 1, as its length
HeadingLevel(s) == Min(RunLen(s, "#", 1), 6)

\* HEADING_RE group 2
HeadingGroup(s) == From(s, SkipWS(s, HeadingLevel(s) + 1))

\* UL_ITEM_RE = ^\s*[-+*]\s+(.*)
ULMatch(s) ==
    LET p == SkipWS(s, 1) IN
    p + 1 <= Len(s) /\ s[p] \in {"-", "+", "*"} /\ s[p + 1] \in WS

\* UL_ITEM_RE group 1
ULGroup(s) == From(s, SkipWS(s, SkipWS(s, 1) + 1))

\* OL_ITEM_RE = ^\s*(\d+)[.)]\s+(.*)
OLMatch(s) ==
    LET p == SkipWS(s, 1)
        q == p + DigitRun(s, p)
    IN  q > p /\ q + 1 <= Len(s) /\ s[q] \in {".", ")"} /\ s[q + 1] \in WS

\* OL_ITEM_RE group 2
OLGroup(s) ==
    LET p == SkipWS(s, 1) IN From(s, SkipWS(s, p + DigitRun(s, p) + 1))

\* ^\s*\|.+\|\s*$  (TABLE_ROW_RE, written inline in the table branch)
TableMatch(s) ==
    LET p == SkipWS(s, 1)
        q == LastNonWS(s, Len(s))
    IN  p <= Len(s) /\ s[p] = "|" /\ q >= p + 2 /\ s[q] = "|"

\* BLOCKQUOTE_RE = ^>\s?(.*)
BlockquoteMatch(s) == Len(s) >= 1 /\ s[1] = ">"

\* BLOCKQUOTE_RE group 1
BlockquoteGroup(s) ==
    IF Len(s) >= 2 /\ s[2] \in WS THEN From(s, 3) ELSE From(s, 2)

\* HR_RE = ^\s*((?:-{3,})|(?:\*{3,})|(?:_{3,}))\s*$
HRMatch(s) ==
    LET t == Strip(s) IN
    Len(t) >= 3 /\ t[1] \in {"-", "*", "_"} /\ RunLen(t, t[1], 1) = Len(t)

\* ---------------------------------------------------------- inline renderer

\* The characters of a chunk of markup that the image and link passes write
\* around text: what a later pass sees when it reads such a chunk as text.
Explode(t) ==
    CASE t = "<img src=\"" -> <<"<", "i", "m", "g", " ", "s", "r", "c", "=", "\"">>
      [] t = "\" alt=\"" -> <<"\"", " ", "a", "l", "t", "=", "\"">>
      [] t = "\" loading=\"lazy\">" ->
            <<"\"", " ", "l", "o", "a", "d", "i", "n", "g", "=", "\"",
              "l", "a", "z", "y", "\"", ">">>
      [] t = "<a href=\"" -> <<"<", "a", " ", "h", "r", "e", "f", "=", "\"">>
      [] t = "\">" -> <<"\"", ">">>
      [] OTHER -> <<t>>

\* html.escape of one character, quote=False
EscapeChar(c) ==
    CASE c = "&" -> <<"&", "a", "m", "p", ";">>
      [] c = "<" -> <<"&", "l", "t", ";">>
      [] c = ">" -> <<"&", "g", "t", ";">>
      [] OTHER -> <<c>>

\* The characters of a rendered text: its markup chunks read as text.
Chars(text) == Concat([k \in 1..Len(text) |-> Explode(text[k])], 1, Len(text))

\* escape_html(text) = html.escape(text, quote=False)
escape_html(text) ==
    LET cs == Chars(text) IN
    Concat([k \in 1..Len(cs) |-> EscapeChar(cs[k])], 1, Len(cs))

\* End of the match of IMAGE_RE = !\[([^\]]*)\]\(([^)]+)\) begun at p, as
\* <<index of "]", index of ")">>; <<0, 0>> when there is no match at p.
ImageAt(s, p) ==
    IF ~(p + 1 <= Len(s) /\ s[p] = "!" /\ s[p + 1] = "[") THEN <<0, 0>>
    ELSE LET r == Find(s, "]", p + 2)
             e == Find(s, ")", r + 2)
         IN  IF r + 1 <= Len(s) /\ s[r + 1] = "(" /\ e <= Len(s) /\ e >= r + 3
             THEN <<r, e>> ELSE <<0, 0>>

\* Start of the leftmost match of IMAGE_RE at or after p (Len(s) + 1 when none).
ImageNext(s, p) ==
    IF p > Len(s) THEN p
    ELSE CHOOSE q \in p..(Len(s) + 1) :
            /\ (q = Len(s) + 1 \/ ImageAt(s, q)[1] # 0)
            /\ \A r \in p..(q - 1) : ImageAt(s, r)[1] = 0

\* _img(m) for the match <<index of "]", index of ")">> begun at q
ImageTag(s, q, m) ==
    <<"<img src=\"">> \o escape_html(SubSeq(s, m[1] + 2, m[2] - 1))
      \o <<"\" alt=\"">> \o escape_html(SubSeq(s, q + 2, m[1] - 1))
      \o <<"\" loading=\"lazy\">">>

\* IMAGE_RE.sub(_img, text), from position p on
RECURSIVE ImageSub(_, _)
ImageSubFrom(s, p, q, m) ==
    IF q > Len(s) THEN From(s, p)
    ELSE SubSeq(s, p, q - 1) \o ImageTag(s, q, m) \o ImageSub(s, m[2] + 1)
ImageSubAt(s, p, q) ==
    ImageSubFrom(s, p, q, IF q > Len(s) THEN <<0, 0>> ELSE ImageAt(s, q))
ImageSub(s, p) == ImageSubAt(s, p, ImageNext(s, p))

\* End of the match of LINK_RE = \[([^\]]+)\]\(([^)]+)\) begun at p.
LinkAt(s, p) ==
    IF s[p] # "[" THEN <<0, 0>>
    ELSE LET r == Find(s, "]", p + 1)
             e == Find(s, ")", r + 2)
         IN  IF r >= p + 2 /\ r + 1 <= Len(s) /\ s[r + 1] = "("
                /\ e <= Len(s) /\ e >= r + 3
             THEN <<r, e>> ELSE <<0, 0>>

\* Start of the leftmost match of LINK_RE at or after p (Len(s) + 1 when none).
LinkNext(s, p) ==
    IF p > Len(s) THEN p
    ELSE CHOOSE q \in p..(Len(s) + 1) :
            /\ (q = Len(s) + 1 \/ LinkAt(s, q)[1] # 0)
            /\ \A r \in p..(q - 1) : LinkAt(s, r)[1] = 0

\* _link(m) for the match <<index of "]", index of ")">> begun at q
LinkTag(s, q, m) ==
    <<"<a href=\"">> \o escape_html(SubSeq(s, m[1] + 2, m[2] - 1)) \o <<"\">">>
      \o escape_html(SubSeq(s, q + 1, m[1] - 1)) \o <<"</a>">>

\* LINK_RE.sub(_link, text), from position p on
RECURSIVE LinkSub(_, _)
LinkSubFrom(s, p, q, m) ==
    IF q > Len(s) THEN From(s, p)
    ELSE SubSeq(s, p, q - 1) \o LinkTag(s, q, m) \o LinkSub(s, m[2] + 1)
LinkSubAt(s, p, q) ==
    LinkSubFrom(s, p, q, IF q > Len(s) THEN <<0, 0>> ELSE LinkAt(s, q))
LinkSub(s, p) == LinkSubAt(s, p, LinkNext(s, p))

\* Start of the closing delimiter of a span opened at p by w characters c
\* (0 when there is no match at p).  INLINE_CODE_RE's group is [^c]+, which
\* stops at the first c; the other spans' group is .+?, which takes one
\* character of any kind and then stops at the first closing delimiter.
SpanAt(s, p, c, w, negated) ==
    IF ~(p + w - 1 <= Len(s) /\ \A k \in 0..(w - 1) : s[p + k] = c) THEN 0
    ELSE LET e == IF negated THEN Find(s, c, p + w)
                  ELSE IF w = 1 THEN Find(s, c, p + w + 1)
                  ELSE Find2(s, c, p + w + 1)
         IN  IF e >= p + w + 1 /\ e + w - 1 <= Len(s) THEN e ELSE 0

\* Start of the leftmost span at or after p (Len(s) + 1 when none).
SpanNext(s, p, c, w, negated) ==
    IF p > Len(s) THEN p
    ELSE CHOOSE q \in p..(Len(s) + 1) :
            /\ (q = Len(s) + 1 \/ SpanAt(s, q, c, w, negated) # 0)
            /\ \A r \in p..(q - 1) : SpanAt(s, r, c, w, negated) = 0

\* RE.sub(r"<tag>\1</tag>", text) for INLINE_CODE_RE, BOLD_RE, ITALIC_RE, STRIKE_RE
RECURSIVE SpanSub(_, _, _, _, _, _, _)
SpanSubFrom(s, p, c, w, negated, open, close, q, e) ==
    IF q > Len(s) THEN From(s, p)
    ELSE SubSeq(s, p, q - 1) \o <<open>> \o SubSeq(s, q + w, e - 1) \o <<close>>
           \o SpanSub(s, e + w, c, w, negated, open, close)
SpanSubAt(s, p, c, w, negated, open, close, q) ==
    SpanSubFrom(s, p, c, w, negated, open, close, q,
                IF q > Len(s) THEN 0 ELSE SpanAt(s, q, c, w, negated))
SpanSub(s, p, c, w, negated, open, close) ==
    SpanSubAt(s, p, c, w, negated, open, close, SpanNext(s, p, c, w, negated))

\* The passes of inline_parse, in its order.
CodePass(t) == SpanSub(t, 1, BT, 1, TRUE, "<code>", "</code>")
BoldPass(t) == SpanSub(t, 1, "*", 2, FALSE, "<strong>", "</strong>")
ItalicPass(t) == SpanSub(t, 1, "*", 1, FALSE, "<em>", "</em>")
StrikePass(t) == SpanSub(t, 1, "~", 2, FALSE, "<del>", "</del>")

\* inline_parse(text)
inline_parse(text) ==
    StrikePass(ItalicPass(BoldPass(CodePass(LinkSub(ImageSub(text, 1), 1)))))

\* The inline rendering every block applies to its text.
Render(text) == inline_parse(escape_html(text))

\* Markup chunks that are whole tags; the chunks that open a tag and leave
\* it open; the chunks that hold a ">".
FullTags == {"<code>", "</code>", "<strong>", "</strong>", "<em>", "</em>",
             "<del>", "</del>", "</a>", "<br>"}
OpensTag(t) == t \in FullTags \cup {"<img src=\"", "<a href=\"", "<"}
HoldsGt(t) == t \in FullTags \cup {"\" loading=\"lazy\">", "\">", ">"}

\* Index of the first token at or after p that holds a ">" (Len(s) + 1 when none).
FindGt(s, p) ==
    IF p > Len(s) THEN p
    ELSE CHOOSE q \in p..(Len(s) + 1) :
            /\ (q = Len(s) + 1 \/ HoldsGt(s[q]))
            /\ \A r \in p..(q - 1) : ~HoldsGt(s[r])

\* Index of the token that ends the match of <.*?> begun at p (0 when no match).
TagAt(s, p) ==
    IF s[p] \in FullTags THEN p
    ELSE IF OpensTag(s[p]) /\ FindGt(s, p + 1) <= Len(s) THEN FindGt(s, p + 1)
    ELSE 0

\* Start of the leftmost match of <.*?> at or after p (Len(s) + 1 when none).
TagNext(s, p) ==
    IF p > Len(s) THEN p
    ELSE CHOOSE q \in p..(Len(s) + 1) :
            /\ (q = Len(s) + 1 \/ TagAt(s, q) # 0)
            /\ \A r \in p..(q - 1) : TagAt(s, r) = 0

\* re.sub(r"<.*?>", "", parsed), from position p on, as characters
RECURSIVE StripTags(_, _)
StripTagsAt(s, p, q) ==
    IF q > Len(s) THEN Chars(From(s, p))
    ELSE Chars(SubSeq(s, p, q - 1)) \o StripTags(s, TagAt(s, q) + 1)
StripTags(s, p) == StripTagsAt(s, p, TagNext(s, p))

\* s holds the characters chars from position p on.
HoldsAt(s, p, chars) ==
    p + Len(chars) - 1 <= Len(s) /\ SubSeq(s, p, p + Len(chars) - 1) = chars

\* The character a reference at p stands for, with the reference's length
\* (<<"", 0>> when there is none at p).
RefAt(s, p) ==
    IF s[p] # "&" THEN <<"", 0>>
    ELSE IF HoldsAt(s, p, <<"&", "a", "m", "p", ";">>) THEN <<"&", 5>>
    ELSE IF HoldsAt(s, p, <<"&", "l", "t", ";">>) THEN <<"<", 4>>
    ELSE IF HoldsAt(s, p, <<"&", "g", "t", ";">>) THEN <<">", 4>>
    ELSE <<"", 0>>

\* Start of the leftmost reference at or after p (Len(s) + 1 when none).
RefNext(s, p) ==
    IF p > Len(s) THEN p
    ELSE CHOOSE q \in p..(Len(s) + 1) :
            /\ (q = Len(s) + 1 \/ RefAt(s, q)[2] # 0)
            /\ \A r \in p..(q - 1) : RefAt(s, r)[2] = 0

\* html.unescape, for the references html.escape writes
RECURSIVE Unescape(_, _)
UnescapeAt(s, p, q) ==
    IF q > Len(s) THEN From(s, p)
    ELSE SubSeq(s, p, q - 1) \o <<RefAt(s, q)[1]>>
           \o Unescape(s, q + RefAt(s, q)[2])
Unescape(s, p) == UnescapeAt(s, p, RefNext(s, p))

\* ------------------------------------------------------------------- tables

\* line.strip("|"): the line without its leading and trailing "|" characters
StripPipes(s) ==
    LET a == 1 + RunLen(s, "|", 1)
        b == IF a > Len(s) THEN Len(s)
             ELSE CHOOSE q \in (a - 1)..Len(s) :
                     /\ (q = a - 1 \/ s[q] # "|")
                     /\ \A r \in (q + 1)..Len(s) : s[r] = "|"
    IN  SubSeq(s, a, b)

\* str.split("|")
RECURSIVE Split(_)
Split(s) ==
    LET k == Find(s, "|", 1) IN
    IF k > Len(s) THEN <<s>>
    ELSE <<SubSeq(s, 1, k - 1)>> \o Split(From(s, k + 1))

\* [cell.strip() for cell in line.strip("|").split("|")]
Cells(line) ==
    LET parts == Split(StripPipes(line)) IN
    [k \in 1..Len(parts) |-> Strip(parts[k])]

\* "".join(open + c + close for c in row)
RECURSIVE CellTags(_, _, _)
CellTags(row, open, close) ==
    IF row = <<>> THEN <<>>
    ELSE <<open>> \o Head(row) \o <<close>> \o CellTags(Tail(row), open, close)

\* for r in body: html += "<tr>" + ... + "</tr>"
RECURSIVE BodyRows(_)
BodyRows(body) ==
    IF body = <<>> THEN <<>>
    ELSE <<"<tr>">> \o CellTags(Head(body), "<td>", "</td>") \o <<"</tr>">>
           \o BodyRows(Tail(body))

\* body = rows[2:] if len(rows) > 2 else rows[1:]
TableBody(rows) ==
    IF Len(rows) > 2 THEN SubSeq(rows, 3, Len(rows)) ELSE Tail(rows)

\* parse_table(lines)
parse_table(table_lines) ==
    LET rows == [k \in 1..Len(table_lines) |-> Cells(table_lines[k])]
        header == rows[1]
    IN  <<"<table>\n<thead><tr>">> \o CellTags(header, "<th>", "</th>")
          \o <<"</tr></thead>\n">> \o <<"<tbody>">> \o BodyRows(TableBody(rows))
          \o <<"</tbody></table>">>

\* ------------------------------------------------------------------- driver

\* The locals of md_to_html as one record.
State ==
    [lines |-> lines, i |-> i, html_lines |-> html_lines, title |-> title,
     meta_desc |-> meta_desc, inside_code |-> inside_code,
     code_lang |-> code_lang, code_lines |-> code_lines, stack |-> stack,
     pc |-> pc, result |-> result]

\* The locals before the first iteration, for the document ls.
InitState(ls) ==
    [lines |-> ls, i |-> 0, html_lines |-> <<>>, title |-> None,
     meta_desc |-> None, inside_code |-> FALSE, code_lang |-> <<>>,
     code_lines |-> <<>>, stack |-> <<>>, pc |-> "loop", result |-> None]

\* raw = lines[i]  (i counts from 0, as in the code)
Raw(s) == s.lines[s.i + 1]

\* line = raw.rstrip()
Line(s) == RStrip(Raw(s))

\* The branch one iteration of the while loop takes on line, inside a fenced
\* block or not.
BranchOf(line, inside) ==
    IF FenceMatch(line) THEN "fence"
    ELSE IF inside THEN "code"
    ELSE IF Strip(line) = <<>> THEN "blank"
    ELSE IF HeadingMatch(line) THEN "heading"
    ELSE IF ULMatch(line) \/ OLMatch(line) THEN "list"
    ELSE IF TableMatch(line) THEN "table"
    ELSE IF BlockquoteMatch(line) THEN "blockquote"
    ELSE IF HRMatch(line) THEN "rule"
    ELSE "paragraph"
Branch(s) == BranchOf(Line(s), s.inside_code)

\* "\n".join(escape_html(l) for l in code_lines)
CodeHtml(cl) ==
    Join([k \in 1..Len(cl) |-> escape_html(cl[k])], <<"\n">>)

\* The fragment a closing fence appends.
CodeFragment(lang, cl) ==
    (IF lang # <<>>
     THEN <<"<pre><code class=\"language-">> \o escape_html(lang) \o <<"\">">>
     ELSE <<"<pre><code>">>)
    \o CodeHtml(cl) \o <<"\n</code></pre>">>

\* fenced code block start/end
FenceStep(s) ==
    IF ~s.inside_code
    THEN [s EXCEPT !.inside_code = TRUE,
                   !.code_lang = Strip(FenceGroup(Line(s))),
                   !.code_lines = <<>>,
                   !.i = s.i + 1]
    ELSE [s EXCEPT !.inside_code = FALSE,
                   !.html_lines = Append(s.html_lines,
                                         CodeFragment(s.code_lang, s.code_lines)),
                   !.i = s.i + 1]

\* The code-line branch if it dropped blank lines instead of keeping them.
CodeStep_SkipBlank(s) ==
    IF Strip(s.lines[s.i + 1]) = <<>>
    THEN [s EXCEPT !.i = s.i + 1]
    ELSE [s EXCEPT !.code_lines = Append(s.code_lines, s.lines[s.i + 1]),
                   !.i = s.i + 1]

\* if inside_code: code_lines.append(raw)
CodeStep(s) ==
    [s EXCEPT !.code_lines = Append(s.code_lines, Raw(s)), !.i = s.i + 1]

\* if not line.strip(): skip the line
BlankStep(s) == [s EXCEPT !.i = s.i + 1]

HOpen(level) == <<"<h1>", "<h2>", "<h3>", "<h4>", "<h5>", "<h6>">>[level]
HClose(level) == <<"</h1>", "</h2>", "</h3>", "</h4>", "</h5>", "</h6>">>[level]

\* The text of a heading line: m_h.group(2).strip()
HeadingText(line) == Strip(HeadingGroup(line))

\* if not title: title = text
SetTitle(old, text) == IF Falsy(old) THEN text ELSE old

\* heading
HeadingEmit(s, level, text) ==
    [s EXCEPT !.title = SetTitle(s.title, text),
              !.html_lines = Append(s.html_lines,
                                    <<HOpen(level)>> \o Render(text)
                                      \o <<HClose(level)>>),
              !.i = s.i + 1]
HeadingStep(s) == HeadingEmit(s, HeadingLevel(Line(s)), HeadingText(Line(s)))

\* ------------------------------------------------------------ list assembler

\* len(leading_whitespace.expandtabs(4)) for the whitespace s[1..n]
ExpandTabs(s, n) ==
    LET RECURSIVE Col(_)
        Col(k) == IF k = 0 THEN 0
                  ELSE LET c == Col(k - 1) IN
                       IF s[k] = "\t" THEN c + (4 - (c % 4)) ELSE c + 1
    IN  Col(n)

\* indent = len(re.match(r"^(\s*)", l).group(1).expandtabs(4))
Indent(l) == ExpandTabs(l, SkipWS(l, 1) - 1)

\* _list_match(l), for a line that UL_ITEM_RE or OL_ITEM_RE matches
list_match(l) ==
    IF ULMatch(l)
    THEN [list_type |-> "ul", indent |-> Indent(l), content |-> Strip(ULGroup(l))]
    ELSE [list_type |-> "ol", indent |-> Indent(l), content |-> Strip(OLGroup(l))]

ListOpen(t) == IF t = "ul" THEN "<ul>" ELSE "<ol>"
ListClose(t) == IF t = "ul" THEN "</ul>" ELSE "</ol>"

\* html_lines[-1] = html_lines[-1].rstrip() + tok
AppendToLast(h, tok) ==
    [h EXCEPT ![Len(h)] = RStrip(h[Len(h)]) \o <<tok>>]

\* close_inline_li()
close_inline_li(h) ==
    IF h # <<>> /\ ~EndsWith(h[Len(h)], "</li>", <<"<", "/", "l", "i", ">">>)
    THEN AppendToLast(h, "</li>")
    ELSE h

\* while stack and stack[-1][0] > indent: pop the frame, append its closing tag.
\* Gives <<stack, html_lines>>.
RECURSIVE PopAbove(_, _, _)
PopAbove(st, h, indent) ==
    IF st # <<>> /\ st[Len(st)][1] > indent
    THEN PopAbove(SubSeq(st, 1, Len(st) - 1),
                  Append(h, <<ListClose(st[Len(st)][2])>>), indent)
    ELSE <<st, h>>

\* while stack: pop the frame, append its closing tag.
RECURSIVE PopAll(_, _)
PopAll(st, h) ==
    IF st # <<>>
    THEN PopAll(SubSeq(st, 1, Len(st) - 1), Append(h, <<ListClose(st[Len(st)][2])>>))
    ELSE h

\* f"<li>{inline_parse(escape_html(content))}"
LiFragment(content) == <<"<li>">> \o Render(content)

\* The loop of the list branch goes on: the line at the cursor is a list item.
ListGoesOn(s) ==
    s.i < Len(s.lines) /\ (ULMatch(Raw(s)) \/ OLMatch(Raw(s)))

\* One iteration of the loop of the list branch that does not break, for the
\* item m = (list_type, indent, content), its fragment li and h = html_lines.
ListItemEmit(s, m, li, h) ==
    IF s.stack = <<>>
    THEN [s EXCEPT !.html_lines = h \o <<<<ListOpen(m.list_type)>>, li>>,
                   !.stack = <<<<m.indent, m.list_type>>>>,
                   !.i = s.i + 1]
    ELSE IF m.indent > s.stack[Len(s.stack)][1]
    THEN [s EXCEPT !.html_lines =
                      Append(AppendToLast(h, ListOpen(m.list_type)), li),
                   !.stack = Append(s.stack, <<m.indent, m.list_type>>),
                   !.i = s.i + 1]
    ELSE IF m.indent = s.stack[Len(s.stack)][1]
    THEN [s EXCEPT !.html_lines = Append(close_inline_li(h), li),
                   !.i = s.i + 1]
    ELSE [s EXCEPT !.html_lines =
                      Append(close_inline_li(
                                PopAbove(s.stack, close_inline_li(h), m.indent)[2]),
                             li),
                   !.stack = PopAbove(s.stack, close_inline_li(h), m.indent)[1],
                   !.i = s.i + 1]
ListItemWith(s, m) == ListItemEmit(s, m, LiFragment(m.content), s.html_lines)
ListItemStep(s) == ListItemWith(s, list_match(Raw(s)))

\* The loop of the list branch is left: close remaining open lists, continue.
ListEndStep(s) ==
    [s EXCEPT !.html_lines = PopAll(s.stack, close_inline_li(s.html_lines)),
              !.stack = <<>>,
              !.pc = "loop"]

\* One test of the loop condition of the list branch and what follows it.
ListIter(s) == IF ListGoesOn(s) THEN ListItemStep(s) ELSE ListEndStep(s)

\* The list branch is entered: stack = [], then the first test of its loop.
ListStartStep(s) == ListIter([s EXCEPT !.stack = <<>>, !.pc = "list"])

\* ------------------------------------------------- table, blockquote, rule

\* Number of lines from index k (counted from 0) on that go on the run.
RECURSIVE TableRun(_, _)
TableRun(ls, k) ==
    IF k < Len(ls) /\ TableMatch(ls[k + 1]) THEN 1 + TableRun(ls, k + 1) ELSE 0

\* table, for a run that goes on n lines past the first
TableEmit(s, n) ==
    [s EXCEPT !.html_lines =
                 Append(s.html_lines,
                        parse_table(<<Line(s)>>
                                      \o SubSeq(s.lines, s.i + 2, s.i + 1 + n))),
              !.i = s.i + 1 + n]
TableStep(s) == TableEmit(s, TableRun(s.lines, s.i + 1))

RECURSIVE BlockquoteRun(_, _)
BlockquoteRun(ls, k) ==
    IF k < Len(ls) /\ BlockquoteMatch(RStrip(ls[k + 1]))
    THEN 1 + BlockquoteRun(ls, k + 1) ELSE 0

\* blockquote, for a run of n lines
BlockquoteEmit(s, n) ==
    [s EXCEPT !.html_lines =
                 Append(s.html_lines,
                        <<"<blockquote>">>
                          \o Join([k \in 1..n |->
                                     Render(Strip(BlockquoteGroup(
                                                     RStrip(s.lines[s.i + k]))))],
                                  <<" ">>)
                          \o <<"</blockquote>">>),
              !.i = s.i + n]
BlockquoteStep(s) == BlockquoteEmit(s, BlockquoteRun(s.lines, s.i))

\* The rule branch without its i += 1.
RuleStep_NoAdvance(s) ==
    [s EXCEPT !.html_lines = Append(s.html_lines, <<"<hr>">>)]

\* horizontal rule
RuleStep(s) ==
    [s EXCEPT !.html_lines = Append(s.html_lines, <<"<hr>">>), !.i = s.i + 1]

\* --------------------------------------------------------------- paragraph

\* The collect loop if a blockquote line ended a paragraph as well.
ParaGoesOn_StopsAtBlockquote(ls, k) ==
    /\ k < Len(ls)
    /\ Strip(ls[k + 1]) # <<>>
    /\ ~HeadingMatch(ls[k + 1])
    /\ ~ULMatch(ls[k + 1])
    /\ ~OLMatch(ls[k + 1])
    /\ ~FenceMatch(ls[k + 1])
    /\ ~BlockquoteMatch(RStrip(ls[k + 1]))

\* The condition of the paragraph collect loop at index k (counted from 0).
ParaGoesOn(ls, k) ==
    /\ k < Len(ls)
    /\ Strip(ls[k + 1]) # <<>>
    /\ ~HeadingMatch(ls[k + 1])
    /\ ~ULMatch(ls[k + 1])
    /\ ~OLMatch(ls[k + 1])
    /\ ~FenceMatch(ls[k + 1])

\* Number of lines the collect loop adds from index k on.
RECURSIVE ParaRun(_, _)
ParaRun(ls, k) == IF ParaGoesOn(ls, k) THEN 1 + ParaRun(ls, k + 1) ELSE 0

\* pl.endswith("  ")
EndsWithTwoSpaces(pl) ==
    Len(pl) >= 2 /\ pl[Len(pl)] = " " /\ pl[Len(pl) - 1] = " "

\* The parts one paragraph line gives: two spaces at the end of the line make a
\* <br>; otherwise a space follows unless the line is the last.
ParaParts(pl, last) ==
    Render(IF EndsWithTwoSpaces(pl) THEN SubSeq(pl, 1, Len(pl) - 2) ELSE pl)
      \o (IF EndsWithTwoSpaces(pl) THEN <<"<br>">>
          ELSE IF last THEN <<>> ELSE <<" ">>)

\* The parts of the paragraph lines from the k-th on.
RECURSIVE ParaJoin(_, _)
ParaJoin(para_lines, k) ==
    IF k > Len(para_lines) THEN <<>>
    ELSE ParaParts(para_lines[k], k = Len(para_lines)) \o ParaJoin(para_lines, k + 1)

\* "".join(parts).strip()
ParaParsed(para_lines) == Strip(ParaJoin(para_lines, 1))

\* Longest description, and the length kept in front of the marker.
DescMax == 160
DescKeep == 157

\* The cut made at the limit itself: clean[:160] + "...".
Truncate_KeepMax(clean) ==
    IF Len(clean) > DescMax
    THEN SubSeq(clean, 1, DescMax) \o <<".", ".", ".">>
    ELSE clean

\* (clean[:157] + "...") if len(clean) > 160 else clean
Truncate(clean) ==
    IF Len(clean) > DescMax
    THEN SubSeq(clean, 1, DescKeep) \o <<".", ".", ".">>
    ELSE clean

\* html.unescape(re.sub(r"<.*?>", "", parsed))
Clean(parsed) == Unescape(StripTags(parsed, 1), 1)

\* if not meta_desc: meta_desc = ...
SetMeta(old, parsed) == IF Falsy(old) THEN Truncate(Clean(parsed)) ELSE old

\* paragraph collect and build, for a paragraph of n lines past the first
ParagraphEmit(s, n, parsed) ==
    [s EXCEPT !.meta_desc = SetMeta(s.meta_desc, parsed),
              !.html_lines = Append(s.html_lines,
                                    <<"<p>">> \o parsed \o <<"</p>">>),
              !.i = s.i + 1 + n]
ParagraphLines(s, n) ==
    ParagraphEmit(s, n, ParaParsed(SubSeq(s.lines, s.i + 1, s.i + 1 + n)))
ParagraphStep(s) == ParagraphLines(s, ParaRun(s.lines, s.i + 1))

\* ------------------------------------------------------------------ result

Lesson == <<"L", "e", "s", "s", "o", "n">>

\* The dict md_to_html returns.
Result(s) ==
    [title |-> IF Falsy(s.title) THEN Lesson ELSE s.title,
     meta |-> IF Falsy(s.meta_desc) THEN <<>> ELSE s.meta_desc,
     body |-> Join(s.html_lines, <<"\n">>)]

\* The return with a block that is still open emitted as if a fence closed it.
ReturnStep_FlushOpenFence(s) ==
    LET t == IF s.inside_code
             THEN [s EXCEPT !.html_lines =
                               Append(s.html_lines,
                                      CodeFragment(s.code_lang, s.code_lines))]
             ELSE s
    IN  [t EXCEPT !.result = Result(t), !.pc = "done"]

\* The while loop is left: build the body and return.
ReturnStep(s) == [s EXCEPT !.result = Result(s), !.pc = "done"]

\* One iteration of the while loop that takes the branch b.
BranchStep(s, b) ==
    CASE b = "fence" -> FenceStep(s)
      [] b = "code" -> CodeStep(s)
      [] b = "blank" -> BlankStep(s)
      [] b = "heading" -> HeadingStep(s)
      [] b = "list" -> ListStartStep(s)
      [] b = "table" -> TableStep(s)
      [] b = "blockquote" -> BlockquoteStep(s)
      [] b = "rule" -> RuleStep(s)
      [] OTHER -> ParagraphStep(s)

\* One step of md_to_html from the locals s.
Step(s) ==
    IF s.pc = "list" THEN ListIter(s)
    ELSE IF s.i >= Len(s.lines) THEN ReturnStep(s)
    ELSE BranchStep(s, Branch(s))

\* md_to_html run to its return from the locals s.
RECURSIVE Run(_)
Run(s) == IF s.pc = "done" THEN s ELSE Run(Step(s))

\* md_to_html(md), for md.splitlines() = ls
md_to_html(ls) == Run(InitState(ls)).result

\* ------------------------------------------------------------------ inputs

\* Length of the long paragraph line of the corpus.
LongLen == 159

\* The lines documents are made of.
Corpus ==
    { <<>>,
      <<"#", " ", ">">>,
      <<"#">>,
      <<"#", "a">>,
      <<"-", " ", "<">>,
      <<"-", " ">>,
      <<" ", " ", "1", ".", " ", "a">>,
      <<"|", "<", "|">>,
      <<"|", "-", "|">>,
      <<">", " ", "<">>,
      <<"-", "-", "-">>,
      <<BT, BT, BT>>,
      <<"<">>,
      <<"!", "[", "a", "]", "(", "b", ")">>,
      [k \in 1..LongLen |-> "a"] }

\* Documents: md.splitlines() for the inputs considered.
Docs == UNION { [1..n -> Corpus] : n \in 0..MaxLines }

\* ----------------------------------------------------------------- actions

Init ==
    /\ lines \in Docs
    /\ i = 0
    /\ html_lines = <<>>
    /\ title = None
    /\ meta_desc = None
    /\ inside_code = FALSE
    /\ code_lang = <<>>
    /\ code_lines = <<>>
    /\ stack = <<>>
    /\ pc = "loop"
    /\ result = None

\* The locals become those of the record n.
Becomes(n) ==
    /\ lines' = n.lines
    /\ i' = n.i
    /\ html_lines' = n.html_lines
    /\ title' = n.title
    /\ meta_desc' = n.meta_desc
    /\ inside_code' = n.inside_code
    /\ code_lang' = n.code_lang
    /\ code_lines' = n.code_lines
    /\ stack' = n.stack
    /\ pc' = n.pc
    /\ result' = n.result

\* The while loop is at its top with a line left to read.
AtLine == pc = "loop" /\ i < Len(lines)

Fence == AtLine /\ Branch(State) = "fence" /\ Becomes(FenceStep(State))

CodeLine == AtLine /\ Branch(State) = "code" /\ Becomes(CodeStep(State))

Blank == AtLine /\ Branch(State) = "blank" /\ Becomes(BlankStep(State))

Heading == AtLine /\ Branch(State) = "heading" /\ Becomes(HeadingStep(State))

ListStart == AtLine /\ Branch(State) = "list" /\ Becomes(ListStartStep(State))

ListItem == pc = "list" /\ ListGoesOn(State) /\ Becomes(ListItemStep(State))

ListEnd == pc = "list" /\ ~ListGoesOn(State) /\ Becomes(ListEndStep(State))

Table == AtLine /\ Branch(State) = "table" /\ Becomes(TableStep(State))

Blockquote ==
    AtLine /\ Branch(State) = "blockquote" /\ Becomes(BlockquoteStep(State))

Rule == AtLine /\ Branch(State) = "rule" /\ Becomes(RuleStep(State))

Paragraph ==
    AtLine /\ Branch(State) = "paragraph" /\ Becomes(ParagraphStep(State))

Return == pc = "loop" /\ i >= Len(lines) /\ Becomes(ReturnStep(State))

Next ==
    \/ Fence
    \/ CodeLine
    \/ Blank
    \/ Heading
    \/ ListStart
    \/ ListItem
    \/ ListEnd
    \/ Table
    \/ Blockquote
    \/ Rule
    \/ Paragraph
    \/ Return

Spec == Init /\ [][Next]_vars

\* ------------------------------------------------------------------ claims

\* Number of tokens of the fragments frags that are in the set toks.
CountIn(frags, toks) ==
    Cardinality({ pos \in UNION { {k} \X (1..Len(frags[k])) : k \in 1..Len(frags) } :
                    frags[pos[1]][pos[2]] \in toks })

\* The fragments that begin with one of the tokens toks, in order of emission.
FragmentsOf(frags, toks) ==
    SelectSeq(frags, LAMBDA f : f # <<>> /\ f[1] \in toks)

HeadingOpens == {"<h1>", "<h2>", "<h3>", "<h4>", "<h5>", "<h6>"}

\* C1: in the body md_to_html returns, no "<" or ">" character of the input
\* appears literally: every "<" and ">" of the body is part of markup the
\* converter wrote (in the body's tokens, text is one character per token and
\* markup is never the bare token "<" or ">").
C1_NoRawAngleInBody ==
    pc = "done" =>
        \A k \in 1..Len(result.body) : result.body[k] \notin {"<", ">"}

\* C2: whenever the list assembler has finished a run (the driver is back at
\* the top of its loop, or has returned), the "<li>" tags emitted so far are as
\* many as the "</li>" tags, and the "<ul>"/"<ol>" tags as many as the
\* "</ul>"/"</ol>" tags.  Only list runs emit these tags, so the counts balance
\* after every run exactly when each run's own counts balance.
C2_ListTagsBalanced ==
    pc \in {"loop", "done"} =>
        /\ CountIn(html_lines, {"<li>"}) = CountIn(html_lines, {"</li>"})
        /\ CountIn(html_lines, {"<ul>", "<ol>"})
             = CountIn(html_lines, {"</ul>", "</ol>"})

\* C3: every iteration of the driver loop strictly increases the cursor i (an
\* iteration that enters the list branch has consumed a line when it reaches
\* the loop of that branch), no step decreases i or moves it past the end of
\* the input, and md_to_html returns a dict with a non-empty title and a body.
C3_CursorAdvances ==
    [][ /\ i' >= i
        /\ i' <= Len(lines)
        /\ lines' = lines
        /\ (pc = "loop" /\ pc' # "done" => i' > i)
        /\ (pc = "list" /\ pc' = "list" => i' = i + 1)
        /\ (pc' = "done" =>
              /\ i' = Len(lines)
              /\ result'.title # None
              /\ Len(result'.title) > 0
              /\ result'.body = Join(html_lines, <<"\n">>)) ]_vars

\* C3 witness: a run that took several iterations, one of them through the
\* list branch, and returned.
C3_Witness ==
    /\ pc = "done"
    /\ Len(lines) = MaxLines
    /\ CountIn(html_lines, {"<li>"}) >= 2
    /\ CountIn(html_lines, {"<p>"}) >= 1

\* The text of the first heading line met outside fenced code (None when the
\* document has none), read off the input from line k on.
RECURSIVE FirstHeadingText(_, _, _)
FirstHeadingText(ls, k, fenced) ==
    IF k > Len(ls) THEN None
    ELSE LET l == RStrip(ls[k]) IN
         IF FenceMatch(l) THEN FirstHeadingText(ls, k + 1, ~fenced)
         ELSE IF ~fenced /\ HeadingMatch(l) THEN HeadingText(l)
         ELSE FirstHeadingText(ls, k + 1, fenced)

\* C4: the title md_to_html returns is the trimmed raw text of the first
\* heading line met outside fenced code, whatever that text is (the empty text
\* included), and is "Lesson" only when the document has no heading line.
C4_TitleFromFirstHeading ==
    pc = "done" =>
        LET t == FirstHeadingText(lines, 1, FALSE) IN
        IF t = None THEN result.title = Lesson ELSE result.title = t

\* The text between the "<p>" and the "</p>" of a paragraph fragment.
ParagraphInner(f) == SubSeq(f, 2, Len(f) - 1)

\* C5: the description md_to_html returns is that of the first paragraph block
\* alone, also when that paragraph's plain text is empty, and is empty when
\* the document has no paragraph.
C5_MetaFromFirstParagraph ==
    pc = "done" =>
        LET ps == FragmentsOf(html_lines, {"<p>"}) IN
        IF ps = <<>> THEN result.meta = <<>>
        ELSE LET clean == Clean(ParagraphInner(ps[1])) IN
             /\ Len(clean) <= DescMax => result.meta = clean
             /\ Len(clean) > DescMax =>
                  SubSeq(result.meta, 1, DescKeep) = SubSeq(clean, 1, DescKeep)

\* C6: when a paragraph sets the description and its plain text has length L,
\* the description is the text unchanged if L <= 160, and is the first 157
\* characters of the text followed by "..." (160 characters) if L > 160; the
\* description is never longer than 160 characters.
C6_DescriptionTruncated ==
    [][ /\ (meta_desc' # None => Len(meta_desc') <= 160)
        /\ (meta_desc' # meta_desc =>
              LET f == html_lines'[Len(html_lines')]
                  clean == Clean(ParagraphInner(f))
                  L == Len(clean)
              IN  /\ Len(html_lines') = Len(html_lines) + 1
                  /\ f[1] = "<p>"
                  /\ (L <= 160 => meta_desc' = clean)
                  /\ (L > 160 =>
                        /\ Len(meta_desc') = 160
                        /\ SubSeq(meta_desc', 1, 157) = SubSeq(clean, 1, 157)
                        /\ SubSeq(meta_desc', 158, 160) = <<".", ".", ".">>)) ]_vars

\* C6 witness: a description that was cut: 157 characters of the paragraph's
\* text and the marker, from a paragraph of more than 160 characters.
C6_Witness ==
    /\ pc = "done"
    /\ Len(result.meta) = 160
    /\ SubSeq(result.meta, 156, 160) = <<"a", "a", ".", ".", ".">>
    /\ Len(Clean(ParagraphInner(FragmentsOf(html_lines, {"<p>"})[1]))) = 161

\* Index of the last fence-marker line of the document (0 when it has none).
LastFence(ls) ==
    LET S == {k \in 1..Len(ls) : FenceMatch(RStrip(ls[k]))} IN
    IF S = {} THEN 0 ELSE CHOOSE k \in S : \A j \in S : j <= k

\* C7: when the input ends inside a fenced code block, md_to_html returns, and
\* the fragments, the title and the description are those of the document cut
\* just before the fence line that opened the block: nothing is emitted for
\* that fence line or for any line after it.
C7_UnclosedFenceDiscarded ==
    pc = "done" /\ inside_code =>
        LET cut == Run(InitState(SubSeq(lines, 1, LastFence(lines) - 1))) IN
        /\ LastFence(lines) >= 1
        /\ html_lines = cut.html_lines
        /\ result = cut.result
        /\ ~cut.inside_code

\* C7 witness: the input ended inside a fenced code block that holds a line,
\* after a block was emitted.
C7_Witness ==
    /\ pc = "done"
    /\ inside_code
    /\ code_lines # <<>>
    /\ html_lines # <<>>

\* A table row whose cells are all made of "-" and ":" with a "-" among them.
IsSeparatorRow(line) ==
    LET cs == Cells(line) IN
    \A k \in 1..Len(cs) :
        /\ \E j \in 1..Len(cs[k]) : cs[k][j] = "-"
        /\ \A j \in 1..Len(cs[k]) : cs[k][j] \in {"-", ":"}

\* C8: of a run of n table rows, the second row is left out of the output only
\* when n > 2 and that row is a separator row; otherwise every row after the
\* first is a body row.
C8_NoDataRowDropped ==
    [][ AtLine /\ Branch(State) = "table" =>
          LET n == i' - i
              f == html_lines'[Len(html_lines')]
              body_rows == CountIn(<<f>>, {"<tr>"})
          IN  /\ CountIn(<<f>>, {"<th>"}) = Len(Cells(Line(State)))
              /\ body_rows = IF n > 2 /\ IsSeparatorRow(lines[i + 2])
                             THEN n - 2 ELSE n - 1 ]_vars

\* C9: every time the list assembler has emitted a "<li>", the nesting stack
\* is non-empty: the item was opened inside a list that is open.
C9_LiInsideOpenList ==
    pc = "list" => stack # <<>>

\* A line made of 1 to 6 "#", a space, and text.
HeadingShape(l) ==
    LET n == RunLen(l, "#", 1) IN
    n >= 1 /\ n <= 6 /\ Len(l) > n + 1 /\ l[n + 1] = " "

\* C10: a non-blank line outside a fence is rendered as a heading (and may set
\* the title) if and only if it is 1 to 6 "#", a space, and text; a line whose
\* "#" run is followed directly by another character is not.  Stated for the
\* lines that hold something after their leading "#" run.
C10_HeadingNeedsSpace ==
    [][ AtLine /\ ~inside_code /\ ~FenceMatch(Line(State))
          /\ Strip(Line(State)) # <<>>
          /\ Len(Line(State)) > RunLen(Line(State), "#", 1) =>
          LET emitted == /\ Len(html_lines') = Len(html_lines) + 1
                         /\ html_lines'[Len(html_lines')][1] \in HeadingOpens
          IN  /\ emitted <=> HeadingShape(Line(State))
              /\ ~HeadingShape(Line(State)) => title' = title ]_vars

\* A line that ends a paragraph in progress: it is blank, or a heading, or an
\* unordered or ordered list item, or a fence marker, read as the line stands.
Interrupts(l) ==
    \/ Strip(l) = <<>>
    \/ HeadingMatch(l)
    \/ ULMatch(l)
    \/ OLMatch(l)
    \/ FenceMatch(l)

\* The tokens that open a blockquote, a rule and a table fragment.
OtherBlockOpens == {"<blockquote>", "<hr>", "<table>\n<thead><tr>"}

\* C11: a paragraph that starts on a line takes every following line up to,
\* and not including, the first line that is blank, a heading, a list item or
\* a fence marker (or up to the end of the input) into one "<p>" fragment; the
\* cursor is left on that line.  A following line the driver would classify as
\* a blockquote, a rule or a table row is taken into the paragraph and gives no
\* "<blockquote>", "<hr>" or "<table>" fragment.
C11_ParagraphRunsToInterrupt ==
    [][ AtLine /\ Branch(State) = "paragraph" =>
          LET f == html_lines'[Len(html_lines')] IN
          /\ i' > i
          /\ i' <= Len(lines)
          /\ \A k \in (i + 2)..i' : ~Interrupts(lines[k])
          /\ (i' < Len(lines) => Interrupts(lines[i' + 1]))
          /\ \A k \in (i + 2)..Len(lines) :
                /\ \A j \in (i + 2)..k : ~Interrupts(lines[j])
                /\ BranchOf(RStrip(lines[k]), FALSE) \in {"blockquote", "rule", "table"}
                => k <= i'
          /\ Len(html_lines') = Len(html_lines) + 1
          /\ SubSeq(html_lines', 1, Len(html_lines)) = html_lines
          /\ f = <<"<p>">> \o ParaParsed(SubSeq(lines, i + 1, i')) \o <<"</p>">>
          /\ CountIn(<<f>>, OtherBlockOpens) = 0
          /\ CountIn(<<f>>, {"<p>"}) = 1 ]_vars

\* C11 witness: a paragraph took a blockquote line that followed its first
\* line and stopped before a heading line, which the cursor is left on.
C11_Witness ==
    /\ pc = "loop"
    /\ Len(lines) = 3
    /\ i = 2
    /\ Len(html_lines) = 1
    /\ html_lines[1][1] = "<p>"
    /\ BlockquoteMatch(RStrip(lines[2]))
    /\ HeadingMatch(lines[3])

\* A fence-marker line, as the driver reads it.
IsFence(l) == FenceMatch(RStrip(l))

\* C12: a step that moves the cursor over a fence-marker line is a step of the
\* driver itself that takes that line alone and toggles inside_code (no list,
\* table, blockquote or paragraph run takes a fence line in).  Inside a fence,
\* a line that is not a fence marker, whatever it looks like, is appended to
\* code_lines as it stands and leaves html_lines, title and meta_desc
\* unchanged; an opening fence emits nothing; a closing fence appends exactly
\* one "<pre><code>" fragment that holds, in source order, exactly the lines
\* between the fence line that opened the block and itself.
C12_FencedLinesAreCode ==
    [][ /\ \A k \in (i + 1)..i' :
              IsFence(lines[k]) =>
                  /\ pc = "loop"
                  /\ k = i + 1
                  /\ i' = i + 1
                  /\ inside_code' = ~inside_code
        /\ (AtLine /\ inside_code /\ ~IsFence(lines[i + 1]) =>
              /\ i' = i + 1
              /\ inside_code'
              /\ code_lines' = Append(code_lines, lines[i + 1])
              /\ html_lines' = html_lines
              /\ title' = title
              /\ meta_desc' = meta_desc)
        /\ (AtLine /\ ~inside_code /\ IsFence(lines[i + 1]) =>
              /\ html_lines' = html_lines
              /\ title' = title
              /\ meta_desc' = meta_desc)
        /\ (AtLine /\ inside_code /\ IsFence(lines[i + 1]) =>
              LET o == LastFence(SubSeq(lines, 1, i))
                  held == SubSeq(lines, o + 1, i)
              IN  /\ o >= 1
                  /\ code_lines = held
                  /\ html_lines' =
                        Append(html_lines,
                               CodeFragment(Strip(FenceGroup(RStrip(lines[o]))), held))
                  /\ CountIn(html_lines', {"<pre><code>"})
                        = CountIn(html_lines, {"<pre><code>"}) + 1
                  /\ title' = title
                  /\ meta_desc' = meta_desc) ]_vars

\* C12 witness: a fenced block that holds a line that looks like a heading was
\* closed, and gave one fragment holding that line and no title.
C12_Witness ==
    /\ pc = "done"
    /\ Len(lines) = 3
    /\ IsFence(lines[1])
    /\ HeadingMatch(lines[2])
    /\ IsFence(lines[3])
    /\ html_lines = <<CodeFragment(<<>>, <<lines[2]>>)>>
    /\ title = None

====
